---- MODULE Spec2Model ----
(***************************************************************************)
(* Model of koa2-weixin-oauth (src/index.js): the AccessToken wrapper, the *)
(* Auth object with its in-memory token store, and the promise-returning   *)
(* operations getAccessToken, refreshAccessToken, getUser, _getUser and    *)
(* getUserByCode, run by callers on Node's single-threaded event loop.     *)
(*                                                                         *)
(* JavaScript values are modelled as follows.  A JSON object is a TLA+     *)
(* record whose DOMAIN is the set of fields it has; reading a field it     *)
(* lacks gives Undefined.  The value `undefined` is Undefined (the string  *)
(* it converts to when used as a property key) where a string is expected  *)
(* and NoValue where an object is expected.                                *)
(***************************************************************************)
EXTENDS Integers, Sequences, FiniteSets, TLC

VARIABLES
    creds,      \* creds[s]: this.appid / this.appsecret of Auth instance s
    store,      \* store[s]: this.store of Auth instance s (own keys only)
    op,         \* op[s][p]: the operation caller p runs on instance s
    now,        \* the local clock, new Date().getTime(), in milliseconds
    nops,       \* number of operations started so far
    probe       \* an AccessToken under test and the last isValid() result

vars == <<creds, store, op, now, nops, probe>>

(***************************************************************************)
(* Bounds of the model.                                                    *)
(***************************************************************************)
MaxOps == 2          \* operations started in one behaviour
MaxSec == 1          \* the clock runs from 0 to MaxSec seconds
MaxProbe == 1        \* SpecIsValid: create_at and expires_in range up to MaxProbe

MsPerSec == 1000     \* the factor of expires_in in isValid

\* Auth instances; the second one is used by SpecEquiv only
Sessions == {"auth", "auth2"}
Main == "auth"
\* callers (route handler invocations)
Procs == {1, 2}

Undefined == "undefined"
NoValue == [undefined |-> TRUE]

Get(d, f) == IF f \in DOMAIN d THEN d[f] ELSE Undefined
Has(d, f) == f \in DOMAIN d

\* JavaScript truthiness of a string-or-undefined value (the !! of isValid)
Truthy(v) == v # "" /\ v # Undefined

(***************************************************************************)
(* The environment: codes, identifiers, what the provider and the          *)
(* transport may answer.                                                   *)
(***************************************************************************)
Codes == {"CODE"}
\* identifiers the provider knows, and identifiers callers ask for
OpenIds == {"U1"}
AskedOpenIds == {"U1", "U2"}
\* refresh tokens a caller passes to refreshAccessToken itself
AskedRefreshTokens == {"R1"}
\* arguments of getAuthorizeURL
RedirectUris == {"http://host/cb"}
Scopes == {"", "snsapi_userinfo"}
States == {"", "STATE"}

\* token payloads of the provider: the documented shape, living one second,
\* and one that has no scope, carries a create_at of the provider's own
\* and is expired on arrival
TokenBodies ==
    { [access_token |-> "A1", expires_in |-> 1, refresh_token |-> "R1",
       openid |-> u, scope |-> "snsapi_base"] : u \in OpenIds }
    \cup
    { [access_token |-> "A2", expires_in |-> 0, refresh_token |-> "R2",
       openid |-> u, create_at |-> 7] : u \in OpenIds }

\* the provider's error payload: parseable JSON without any token field
ErrBody == [errcode |-> 40029, errmsg |-> "invalid code"]

Profiles == { [openid |-> u, nickname |-> "NICKNAME"] : u \in OpenIds }

\* errors
NoError == [none |-> TRUE]
NetErrors == { [name |-> "Error", code |-> c] : c \in {"ECONNREFUSED"} }
SyntaxError == [name |-> "SyntaxError", message |-> "Unexpected token < in JSON"]
ReferenceError == [name |-> "ReferenceError", message |-> "options is not defined"]
NoOAuthTokenError == [name |-> "NoOAuthTokenError", message |-> "No token, please authorize first."]

\* what the callback of request.post receives: (err, res, body)
BadText == [text |-> "<html>"]
Json(v) == [json |-> v]
Failure(e) == [err |-> e, body |-> NoValue]
Answer(b) == [err |-> NoError, body |-> b]
TokenResponses ==
    { Failure(e) : e \in NetErrors } \cup { Answer(BadText) }
    \cup { Answer(Json(b)) : b \in TokenBodies \cup {ErrBody} }
UserResponses ==
    { Failure(e) : e \in NetErrors } \cup { Answer(BadText) }
    \cup { Answer(Json(b)) : b \in Profiles }
NoResponse == [none |-> TRUE]

\* JSON.parse(body): the parsed value, or a SyntaxError thrown
JSONparse(body) ==
    IF Has(body, "json") THEN [ok |-> TRUE, value |-> body.json]
    ELSE [ok |-> FALSE, value |-> NoValue]

(***************************************************************************)
(* AccessToken                                                             *)
(***************************************************************************)
AccessToken(data) == [data |-> data]

\* isValid with <= for <
isValidInclusive(token, t) ==
    /\ Truthy(Get(token.data, "access_token"))
    /\ Has(token.data, "create_at") /\ Has(token.data, "expires_in")
    /\ t <= token.data.create_at + token.data.expires_in * MsPerSec

\* AccessToken.prototype.isValid at clock t.  A missing create_at or
\* expires_in makes the right-hand side NaN, and the comparison false.
isValid(token, t) ==
    /\ Truthy(Get(token.data, "access_token"))
    /\ Has(token.data, "create_at") /\ Has(token.data, "expires_in")
    /\ t < token.data.create_at + token.data.expires_in * MsPerSec

(***************************************************************************)
(* Auth: the store                                                         *)
(***************************************************************************)
\* this.getToken(openid): this.store[openid]
getToken(st, openid) ==
    IF openid \in DOMAIN st THEN st[openid] ELSE NoValue

\* saveToken as a merge: fields of the old record that the new one lacks survive
saveTokenMerge(st, openid, token) ==
    IF openid \in DOMAIN st THEN (openid :> (token @@ st[openid])) @@ st
    ELSE (openid :> token) @@ st

\* this.saveToken(openid, token): this.store[openid] = token
\* saveToken of a store that holds one record only
saveTokenSingle(st, openid, token) == (openid :> token)

\* saveToken that keeps an entry that is already there
saveTokenFirstWins(st, openid, token) ==
    IF openid \in DOMAIN st THEN st ELSE (openid :> token) @@ st

saveToken(st, openid, token) == (openid :> token) @@ st

\* processToken that keeps a create_at found in the response
processTokenKeepStamp(st, data, t) ==
    LET stamped == IF Has(data, "create_at") THEN data ELSE ("create_at" :> t) @@ data
    IN [store |-> saveToken(st, Get(stamped, "openid"), stamped),
        token |-> AccessToken(stamped)]

\* Auth.prototype.processToken at clock t: the new store and the value returned
processToken(st, data, t) ==
    LET stamped == ("create_at" :> t) @@ data
    IN [store |-> saveToken(st, Get(stamped, "openid"), stamped),
        token |-> AccessToken(stamped)]

(***************************************************************************)
(* Requests.  request.post(url, {form: info}, callback) puts one request   *)
(* in flight; the operation's reqs lists the requests it has issued.       *)
(***************************************************************************)
AccessTokenUrl == "https://api.weixin.qq.com/sns/oauth2/access_token"
RefreshTokenUrl == "https://api.weixin.qq.com/sns/oauth2/refresh_token"
UserInfoUrl == "https://api.weixin.qq.com/sns/userinfo"

Post(o, url, info, pc) ==
    [o EXCEPT !.reqs = Append(@, [url |-> url, form |-> info]), !.pc = pc]

\* what a promise of the library has come to after a callback ran
Rejected(st, e) ==
    [store |-> st, settled |-> "rejected", value |-> NoValue, error |-> e, uncaught |-> NoError]
Resolved(st, v) ==
    [store |-> st, settled |-> "resolved", value |-> v, error |-> NoError, uncaught |-> NoError]
\* an exception thrown by the callback itself: it leaves the callback towards
\* the event loop, and neither resolve nor reject is ever called
Thrown(st, e) ==
    [store |-> st, settled |-> "pending", value |-> NoValue, error |-> NoError, uncaught |-> e]

\* an operation in its initial state
IdleOp ==
    [kind |-> "idle", pc |-> "idle", arg |-> Undefined,
     openid |-> Undefined,      \* getUser: the parameter openid
     data |-> NoValue,          \* getUser: const data = this.getToken(openid)
     token |-> NoValue,         \* getUserByCode: const token
     newToken |-> NoValue,      \* getUser: var newToken
     reqs |-> << >>,            \* requests issued, in order
     value |-> NoValue,         \* what the operation's promise resolved with
     error |-> NoError,         \* what it was rejected with
     uncaught |-> NoError,      \* exception thrown out of its callback
     resp |-> NoResponse,       \* the last response its callback received
     t0 |-> -1,                 \* clock when getUser's body ran
     wrote |-> FALSE]           \* whether its callbacks have changed this.store

NewOp(kind, arg) == [IdleOp EXCEPT !.kind = kind, !.arg = arg]

(***************************************************************************)
(* Auth.prototype.getAuthorizeURL                                          *)
(***************************************************************************)
AuthorizeUrl == "https://open.weixin.qq.com/connect/oauth2/authorize"

\* querystring.escape on the values that occur: letters, digits and _ stay,
\* the reserved characters of the redirect address are percent-encoded
QsEscape(v) == IF v = "http://host/cb" THEN "http%3A%2F%2Fhost%2Fcb" ELSE v

\* querystring.stringify(info): key=value pairs in the order of the fields
QsStringify(keys, info) == [i \in 1 .. Len(keys) |-> <<keys[i], QsEscape(info[keys[i]])>>]

InfoKeys == <<"appid", "redirect_uri", "scope", "state", "response_type">>

\* getAuthorizeURL that passes scope on as it is
getAuthorizeURLNoDefault(cr, o, redirect_uri, scope, state) ==
    LET info == [appid |-> cr.appid, redirect_uri |-> redirect_uri,
                 scope |-> scope,
                 state |-> IF Truthy(state) THEN state ELSE "",
                 response_type |-> "code"]
    IN [o EXCEPT !.pc = "resolved",
                 !.value = [url |-> AuthorizeUrl, query |-> QsStringify(InfoKeys, info),
                            hash |-> "wechat_redirect"]]

\* getAuthorizeURL that rejects a call without a scope
getAuthorizeURLStrict(cr, o, redirect_uri, scope, state) ==
    IF ~Truthy(scope)
    THEN [o EXCEPT !.pc = "rejected", !.error = [name |-> "Error", message |-> "scope required"]]
    ELSE getAuthorizeURLNoDefault(cr, o, redirect_uri, scope, state)

\* getAuthorizeURL that puts the whole of this (appid and appsecret) into info
getAuthorizeURLWithSecret(cr, o, redirect_uri, scope, state) ==
    LET info == [appid |-> cr.appid, secret |-> cr.appsecret,
                 redirect_uri |-> redirect_uri,
                 scope |-> IF Truthy(scope) THEN scope ELSE "snsapi_base",
                 state |-> IF Truthy(state) THEN state ELSE "",
                 response_type |-> "code"]
    IN [o EXCEPT !.pc = "resolved",
                 !.value = [url |-> AuthorizeUrl,
                            query |-> QsStringify(<<"appid", "secret">> \o Tail(InfoKeys), info),
                            hash |-> "wechat_redirect"]]

\* the promise executor resolves at once with url + '?' + query + '#wechat_redirect'
getAuthorizeURL(cr, o, redirect_uri, scope, state) ==
    LET info == [appid |-> cr.appid, redirect_uri |-> redirect_uri,
                 scope |-> IF Truthy(scope) THEN scope ELSE "snsapi_base",
                 state |-> IF Truthy(state) THEN state ELSE "",
                 response_type |-> "code"]
    IN [o EXCEPT !.pc = "resolved",
                 !.value = [url |-> AuthorizeUrl, query |-> QsStringify(InfoKeys, info),
                            hash |-> "wechat_redirect"]]

(***************************************************************************)
(* Auth.prototype.getAccessToken                                           *)
(***************************************************************************)
\* the promise executor: build info and post it
getAccessToken(cr, o, code) ==
    Post(o, AccessTokenUrl,
         [appid |-> cr.appid, secret |-> cr.appsecret, code |-> code,
          grant_type |-> "authorization_code"],
         "wait_token")

\* the callback (err, res, body) => ... at clock t
getAccessTokenCallback(st, resp, t) ==
    IF resp.err # NoError THEN Rejected(st, resp.err)
    ELSE LET parsed == JSONparse(resp.body)
         IN IF ~parsed.ok THEN Thrown(st, SyntaxError)
            ELSE LET r == processToken(st, parsed.value, t)
                 IN Resolved(r.store, r.token)

(***************************************************************************)
(* Auth.prototype.refreshAccessToken                                       *)
(***************************************************************************)
refreshAccessToken(cr, o, refreshToken) ==
    Post(o, RefreshTokenUrl,
         [appid |-> cr.appid, grant_type |-> "refresh_token",
          refresh_token |-> refreshToken],
         "wait_refresh")

\* refreshAccessTokenCallback that empties the store when the transport fails
refreshAccessTokenCallbackReset(st, resp, t) ==
    IF resp.err # NoError THEN Rejected(<< >>, resp.err)
    ELSE LET parsed == JSONparse(resp.body)
         IN IF ~parsed.ok THEN Thrown(st, SyntaxError)
            ELSE LET r == processToken(st, parsed.value, t)
                 IN Resolved(r.store, r.token)

refreshAccessTokenCallback(st, resp, t) ==
    IF resp.err # NoError THEN Rejected(st, resp.err)
    ELSE LET parsed == JSONparse(resp.body)
         IN IF ~parsed.ok THEN Thrown(st, SyntaxError)
            ELSE LET r == processToken(st, parsed.value, t)
                 IN Resolved(r.store, r.token)

(***************************************************************************)
(* Auth.prototype._getUser                                                 *)
(***************************************************************************)
\* getUser never passes lang, so lang || 'zh_CN' is 'zh_CN'
_getUser(o, openid, accessToken) ==
    Post(o, UserInfoUrl,
         [access_token |-> accessToken, openid |-> openid, lang |-> "zh_CN"],
         "wait_userinfo")

_getUserCallback(st, resp) ==
    IF resp.err # NoError THEN Rejected(st, resp.err)
    ELSE LET parsed == JSONparse(resp.body)
         IN IF ~parsed.ok THEN Thrown(st, SyntaxError)
            ELSE Resolved(st, parsed.value)

(***************************************************************************)
(* Auth.prototype.getUser                                                  *)
(***************************************************************************)
\* getUser that refreshes whatever isValid says
getUserRefreshFirst(cr, st, o, openid, t) ==
    LET data == getToken(st, openid)
        o1 == [o EXCEPT !.openid = openid, !.data = data, !.t0 = t]
    IN IF data = NoValue
       THEN [o1 EXCEPT !.pc = "rejected", !.error = ReferenceError]
       ELSE refreshAccessToken(cr, o1, Get(data, "refresh_token"))

\* getUser that awaits before it calls _getUser on the valid path, so that
\* the request is posted by a later continuation
getUserDeferred(cr, st, o, openid, t) ==
    LET data == getToken(st, openid)
        o1 == [o EXCEPT !.openid = openid, !.data = data, !.t0 = t]
    IN IF data = NoValue
       THEN [o1 EXCEPT !.pc = "rejected", !.error = ReferenceError]
       ELSE LET token == AccessToken(data)
            IN IF isValid(token, t)
               THEN [o1 EXCEPT !.pc = "await_refresh", !.newToken = token]
               ELSE refreshAccessToken(cr, o1, Get(token.data, "refresh_token"))

\* the body up to its first await, at clock t.  With no data the message
\* expression reads options.openid; options is declared nowhere, so a
\* ReferenceError is thrown before the Error object exists, and the async
\* function's promise is rejected with it.
getUser(cr, st, o, openid, t) ==
    LET data == getToken(st, openid)
        o1 == [o EXCEPT !.openid = openid, !.data = data, !.t0 = t]
    IN IF data = NoValue
       THEN [o1 EXCEPT !.pc = "rejected", !.error = ReferenceError]
       ELSE LET token == AccessToken(data)
            IN IF isValid(token, t)
               THEN _getUser(o1, openid, Get(token.data, "access_token"))
               ELSE refreshAccessToken(cr, o1, Get(token.data, "refresh_token"))

\* getUserResume that goes on with the access_token of the expired record
getUserResumeStale(o) ==
    _getUser(o, o.openid, Get(o.data, "access_token"))

\* after await this.refreshAccessToken(...): accessToken = newToken.data.access_token
getUserResume(o) ==
    _getUser(o, o.openid, Get(o.newToken.data, "access_token"))

(***************************************************************************)
(* Auth.prototype.getUserByCode                                            *)
(***************************************************************************)
\* getUserByCodeResume that hands the code, not the openid, to getUser
getUserByCodeResumeCode(cr, st, o, t) ==
    getUser(cr, st, o, o.arg, t)

\* after await this.getAccessToken(code): this.getUser(token.data.openid)
getUserByCodeResume(cr, st, o, t) ==
    getUser(cr, st, o, Get(o.token.data, "openid"), t)

(***************************************************************************)
(* How a settled inner promise acts on the operation that waits for it.    *)
(***************************************************************************)
Record(st, o, out, resp) ==
    [o EXCEPT !.resp = resp, !.uncaught = out.uncaught,
              !.wrote = @ \/ out.store # st]

\* the operation is the promise itself
Settle(st, o, out, resp) ==
    [Record(st, o, out, resp) EXCEPT
        !.pc = IF out.settled = "pending" THEN "hung" ELSE out.settled,
        !.value = out.value, !.error = out.error]

\* the operation awaits the promise: a rejection is rethrown by await and
\* rejects the async function, a resolution queues its continuation
AwaitToken(st, o, out, resp) ==
    IF out.settled = "resolved"
    THEN [Record(st, o, out, resp) EXCEPT !.pc = "await_token", !.token = out.value]
    ELSE Settle(st, o, out, resp)

\* AwaitRefresh that falls back to the expired access_token when the refresh
\* is rejected
AwaitRefreshFallback(st, o, out, resp) ==
    IF out.settled = "resolved"
    THEN [Record(st, o, out, resp) EXCEPT !.pc = "await_refresh", !.newToken = out.value]
    ELSE IF out.settled = "rejected"
    THEN _getUser(Record(st, o, out, resp), o.openid, Get(o.data, "access_token"))
    ELSE Settle(st, o, out, resp)

\* AwaitRefresh that takes newToken from the cache entry of the openid asked
\* for, not from the value the refresh resolved with
AwaitRefreshFromCache(st, o, out, resp) ==
    IF out.settled = "resolved"
    THEN [Record(st, o, out, resp) EXCEPT
             !.pc = "await_refresh",
             !.newToken = AccessToken(getToken(out.store, o.openid))]
    ELSE Settle(st, o, out, resp)

AwaitRefresh(st, o, out, resp) ==
    IF out.settled = "resolved"
    THEN [Record(st, o, out, resp) EXCEPT !.pc = "await_refresh", !.newToken = out.value]
    ELSE Settle(st, o, out, resp)

\* one callback of request.post run for operation o of a session with store st
OnTokenResponse(st, o, resp, t) ==
    LET out == getAccessTokenCallback(st, resp, t)
    IN [store |-> out.store,
        op |-> IF o.kind = "getUserByCode" THEN AwaitToken(st, o, out, resp)
               ELSE Settle(st, o, out, resp)]

OnRefreshResponse(st, o, resp, t) ==
    LET out == refreshAccessTokenCallback(st, resp, t)
    IN [store |-> out.store,
        op |-> IF o.kind = "refreshAccessToken" THEN Settle(st, o, out, resp)
               ELSE AwaitRefresh(st, o, out, resp)]

\* OnUserResponse that posts the user-info request once more after a
\* transport error
OnUserResponseRetry(st, o, resp) ==
    LET out == _getUserCallback(st, resp)
        last == o.reqs[Len(o.reqs)]
    IN IF resp.err # NoError /\ Cardinality({ i \in DOMAIN o.reqs : o.reqs[i].url = UserInfoUrl }) < 2
       THEN [store |-> out.store,
             op |-> Post(Record(st, o, out, resp), last.url, last.form, "wait_userinfo")]
       ELSE [store |-> out.store, op |-> Settle(st, o, out, resp)]

OnUserResponse(st, o, resp) ==
    LET out == _getUserCallback(st, resp)
    IN [store |-> out.store, op |-> Settle(st, o, out, resp)]

(***************************************************************************)
(* The event loop.  Callers start operations from their own handlers;      *)
(* each response runs one callback to completion; the continuation of an   *)
(* await is a microtask, which runs before any other callback or handler.  *)
(* Only the clock may move between a callback and the microtasks it queued.*)
(***************************************************************************)
\* the clock is looked at once a second
ClockValues == { t \in 0 .. MaxSec * MsPerSec : t % MsPerSec = 0 }

NoProbe == [token |-> AccessToken(NoValue), called |-> FALSE, result |-> FALSE]

\* new Auth("appid", "appsecret")
Auth(appid, appsecret) == [appid |-> appid, appsecret |-> appsecret, store |-> << >>]

Init ==
    /\ creds = [s \in Sessions |->
                  [appid |-> Auth("appid", "appsecret").appid,
                   appsecret |-> Auth("appid", "appsecret").appsecret]]
    /\ store = [s \in Sessions |-> Auth("appid", "appsecret").store]
    /\ op = [s \in Sessions |-> [p \in Procs |-> IdleOp]]
    /\ now = 0
    /\ nops = 0
    /\ probe = NoProbe

MicrotaskQueued ==
    \E s \in Sessions, p \in Procs : op[s][p].pc \in {"await_token", "await_refresh"}

\* a caller may call the library when its previous call has been settled;
\* callers are numbered in the order of their first call
CanCall(s, p) ==
    /\ ~MicrotaskQueued
    /\ nops < MaxOps
    /\ op[s][p].pc \in {"idle", "resolved", "rejected"}
    /\ \A q \in Procs : q < p => op[s][q].kind # "idle"

Put(s, p, r) ==
    /\ store' = [store EXCEPT ![s] = r.store]
    /\ op' = [op EXCEPT ![s][p] = r.op]

Tick ==
    /\ \E t \in ClockValues :
          /\ t > now
          /\ \A u \in ClockValues : u > now => t <= u
          /\ now' = t
    /\ UNCHANGED <<creds, store, op, nops, probe>>

CallGetAuthorizeURL(s, p, redirect_uri, scope, state) ==
    /\ CanCall(s, p)
    /\ Put(s, p, [store |-> store[s],
                  op |-> getAuthorizeURL(creds[s],
                            NewOp("getAuthorizeURL",
                                  [redirect_uri |-> redirect_uri, scope |-> scope, state |-> state]),
                            redirect_uri, scope, state)])
    /\ nops' = nops + 1
    /\ UNCHANGED <<creds, now, probe>>

CallGetAccessToken(s, p, code) ==
    /\ CanCall(s, p)
    /\ Put(s, p, [store |-> store[s],
                  op |-> getAccessToken(creds[s], NewOp("getAccessToken", code), code)])
    /\ nops' = nops + 1
    /\ UNCHANGED <<creds, now, probe>>

CallRefreshAccessToken(s, p, refreshToken) ==
    /\ CanCall(s, p)
    /\ Put(s, p, [store |-> store[s],
                  op |-> refreshAccessToken(creds[s],
                            NewOp("refreshAccessToken", refreshToken), refreshToken)])
    /\ nops' = nops + 1
    /\ UNCHANGED <<creds, now, probe>>

CallGetUser(s, p, openid) ==
    /\ CanCall(s, p)
    /\ Put(s, p, [store |-> store[s],
                  op |-> getUser(creds[s], store[s], NewOp("getUser", openid), openid, now)])
    /\ nops' = nops + 1
    /\ UNCHANGED <<creds, now, probe>>

CallGetUserByCode(s, p, code) ==
    /\ CanCall(s, p)
    /\ Put(s, p, [store |-> store[s],
                  op |-> getAccessToken(creds[s], NewOp("getUserByCode", code), code)])
    /\ nops' = nops + 1
    /\ UNCHANGED <<creds, now, probe>>

TokenResponse(s, p, resp) ==
    /\ ~MicrotaskQueued
    /\ op[s][p].pc = "wait_token"
    /\ Put(s, p, OnTokenResponse(store[s], op[s][p], resp, now))
    /\ UNCHANGED <<creds, now, nops, probe>>

RefreshResponse(s, p, resp) ==
    /\ ~MicrotaskQueued
    /\ op[s][p].pc = "wait_refresh"
    /\ Put(s, p, OnRefreshResponse(store[s], op[s][p], resp, now))
    /\ UNCHANGED <<creds, now, nops, probe>>

UserResponse(s, p, resp) ==
    /\ ~MicrotaskQueued
    /\ op[s][p].pc = "wait_userinfo"
    /\ Put(s, p, OnUserResponse(store[s], op[s][p], resp))
    /\ UNCHANGED <<creds, now, nops, probe>>

ResumeGetUserByCode(s, p) ==
    /\ op[s][p].pc = "await_token"
    /\ Put(s, p, [store |-> store[s],
                  op |-> getUserByCodeResume(creds[s], store[s], op[s][p], now)])
    /\ UNCHANGED <<creds, now, nops, probe>>

ResumeGetUser(s, p) ==
    /\ op[s][p].pc = "await_refresh"
    /\ Put(s, p, [store |-> store[s], op |-> getUserResume(op[s][p])])
    /\ UNCHANGED <<creds, now, nops, probe>>

Next ==
    \/ Tick
    \/ \E p \in Procs, r \in RedirectUris, sc \in Scopes, st \in States :
          CallGetAuthorizeURL(Main, p, r, sc, st)
    \/ \E p \in Procs, code \in Codes : CallGetAccessToken(Main, p, code)
    \/ \E p \in Procs, r \in AskedRefreshTokens : CallRefreshAccessToken(Main, p, r)
    \/ \E p \in Procs, u \in AskedOpenIds : CallGetUser(Main, p, u)
    \/ \E p \in Procs, code \in Codes : CallGetUserByCode(Main, p, code)
    \/ \E p \in Procs, resp \in TokenResponses : TokenResponse(Main, p, resp)
    \/ \E p \in Procs, resp \in TokenResponses : RefreshResponse(Main, p, resp)
    \/ \E p \in Procs, resp \in UserResponses : UserResponse(Main, p, resp)
    \/ \E p \in Procs : ResumeGetUserByCode(Main, p)
    \/ \E p \in Procs : ResumeGetUser(Main, p)

Spec == Init /\ [][Next]_vars

(***************************************************************************)
(* SpecIsValid: isValid() called on an AccessToken object, for every       *)
(* access_token, create_at, expires_in and clock value within the bounds.  *)
(***************************************************************************)
ProbeTokens ==
    { AccessToken([access_token |-> a, create_at |-> c, expires_in |-> e]) :
        a \in {"", "A1"}, c \in 0 .. MaxProbe, e \in -1 .. MaxProbe }
    \cup
    { AccessToken([create_at |-> c, expires_in |-> e]) :
        c \in 0 .. MaxProbe, e \in -1 .. MaxProbe }

InitIsValid ==
    /\ creds = [s \in Sessions |-> [appid |-> "appid", appsecret |-> "appsecret"]]
    /\ store = [s \in Sessions |-> << >>]
    /\ op = [s \in Sessions |-> [p \in Procs |-> IdleOp]]
    /\ now \in 0 .. (MaxProbe * MsPerSec + MaxProbe + 1)
    /\ nops = 0
    /\ probe \in { [token |-> k, called |-> FALSE, result |-> FALSE] : k \in ProbeTokens }

CallIsValid ==
    /\ ~probe.called
    /\ probe' = [probe EXCEPT !.called = TRUE, !.result = isValid(probe.token, now)]
    /\ UNCHANGED <<creds, store, op, now, nops>>

NextIsValid == CallIsValid

SpecIsValid == InitIsValid /\ [][NextIsValid]_vars

(***************************************************************************)
(* SpecEquiv: two Auth instances that start with the same store and get    *)
(* the same responses at the same clock values.  On instance Left a caller *)
(* runs getUserByCode(code); on instance Right a caller runs the handler   *)
(* of the Readme: getAccessToken(code), then getUser(token.data.openid).   *)
(***************************************************************************)
Left == "auth"
Right == "auth2"
Stamped(b, t) == ("create_at" :> t) @@ b

\* stores a session can be in when the calls start
StartStores ==
    { u @@ e : u \in {<< >>} \cup { ("U1" :> Stamped(b, 0)) : b \in TokenBodies },
               e \in {<< >>, (Undefined :> Stamped(ErrBody, 0))} }

InitEquiv ==
    /\ creds = [s \in Sessions |-> [appid |-> "appid", appsecret |-> "appsecret"]]
    /\ \E st \in StartStores : store = [s \in Sessions |-> st]
    /\ op = [s \in Sessions |-> [p \in Procs |-> IdleOp]]
    /\ now = 0
    /\ nops = 0
    /\ probe = NoProbe

Both(l, r, pl, pr) ==
    /\ store' = [store EXCEPT ![Left] = l.store, ![Right] = r.store]
    /\ op' = [op EXCEPT ![Left][pl] = l.op, ![Right][pr] = r.op]

EqCall(code) ==
    /\ op[Left][1].kind = "idle" /\ op[Right][1].kind = "idle"
    /\ Both([store |-> store[Left],
             op |-> getAccessToken(creds[Left], NewOp("getUserByCode", code), code)],
            [store |-> store[Right],
             op |-> getAccessToken(creds[Right], NewOp("getAccessToken", code), code)],
            1, 1)
    /\ nops' = nops + 1
    /\ UNCHANGED <<creds, now, probe>>

EqTokenResponse(resp) ==
    /\ op[Left][1].pc = "wait_token" /\ op[Right][1].pc = "wait_token"
    /\ Both(OnTokenResponse(store[Left], op[Left][1], resp, now),
            OnTokenResponse(store[Right], op[Right][1], resp, now), 1, 1)
    /\ UNCHANGED <<creds, now, nops, probe>>

\* the continuations of the two awaits of getAccessToken(code)
EqResumeToken ==
    /\ op[Left][1].pc = "await_token"
    /\ op[Right][1].pc = "resolved" /\ op[Right][2].kind = "idle"
    /\ LET openid == Get(op[Right][1].value.data, "openid")
       IN Both([store |-> store[Left],
                op |-> getUserByCodeResume(creds[Left], store[Left], op[Left][1], now)],
               [store |-> store[Right],
                op |-> getUser(creds[Right], store[Right], NewOp("getUser", openid), openid, now)],
               1, 2)
    /\ nops' = nops + 1
    /\ UNCHANGED <<creds, now, probe>>

EqRefreshResponse(resp) ==
    /\ op[Left][1].pc = "wait_refresh" /\ op[Right][2].pc = "wait_refresh"
    /\ Both(OnRefreshResponse(store[Left], op[Left][1], resp, now),
            OnRefreshResponse(store[Right], op[Right][2], resp, now), 1, 2)
    /\ UNCHANGED <<creds, now, nops, probe>>

EqResumeRefresh ==
    /\ op[Left][1].pc = "await_refresh" /\ op[Right][2].pc = "await_refresh"
    /\ Both([store |-> store[Left], op |-> getUserResume(op[Left][1])],
            [store |-> store[Right], op |-> getUserResume(op[Right][2])], 1, 2)
    /\ UNCHANGED <<creds, now, nops, probe>>

EqUserResponse(resp) ==
    /\ op[Left][1].pc = "wait_userinfo" /\ op[Right][2].pc = "wait_userinfo"
    /\ Both(OnUserResponse(store[Left], op[Left][1], resp),
            OnUserResponse(store[Right], op[Right][2], resp), 1, 2)
    /\ UNCHANGED <<creds, now, nops, probe>>

NextEquiv ==
    \/ Tick
    \/ \E code \in Codes : EqCall(code)
    \/ \E resp \in TokenResponses : EqTokenResponse(resp)
    \/ EqResumeToken
    \/ \E resp \in TokenResponses : EqRefreshResponse(resp)
    \/ EqResumeRefresh
    \/ \E resp \in UserResponses : EqUserResponse(resp)

SpecEquiv == InitEquiv /\ [][NextEquiv]_vars

(***************************************************************************)
(* Calls made at once: one session that already has a store, and callers   *)
(* that all make their call before the first response arrives.             *)
(***************************************************************************)
InitRace ==
    /\ creds = [s \in Sessions |->
                  [appid |-> Auth("appid", "appsecret").appid,
                   appsecret |-> Auth("appid", "appsecret").appsecret]]
    /\ \E st \in StartStores :
          store = [s \in Sessions |-> IF s = Main THEN st ELSE << >>]
    /\ op = [s \in Sessions |-> [p \in Procs |-> IdleOp]]
    /\ now = 0
    /\ nops = 0
    /\ probe = NoProbe

\* caller p has not called yet and no callback has run yet
BeforeAnyResponse(p) ==
    /\ op[Main][p].kind = "idle"
    /\ \A q \in Procs : op[Main][q].resp = NoResponse

RaceGetAccessToken(p, code) == BeforeAnyResponse(p) /\ CallGetAccessToken(Main, p, code)
RaceRefreshAccessToken(p, r) == BeforeAnyResponse(p) /\ CallRefreshAccessToken(Main, p, r)
RaceGetUser(p, u) == BeforeAnyResponse(p) /\ CallGetUser(Main, p, u)

NextRace ==
    \/ Tick
    \/ \E p \in Procs, code \in Codes : RaceGetAccessToken(p, code)
    \/ \E p \in Procs, r \in AskedRefreshTokens : RaceRefreshAccessToken(p, r)
    \/ \E p \in Procs, u \in OpenIds : RaceGetUser(p, u)
    \/ \E p \in Procs, resp \in TokenResponses : TokenResponse(Main, p, resp)
    \/ \E p \in Procs, resp \in TokenResponses : RefreshResponse(Main, p, resp)
    \/ \E p \in Procs, resp \in UserResponses : UserResponse(Main, p, resp)
    \/ \E p \in Procs : ResumeGetUser(Main, p)

SpecRace == InitRace /\ [][NextRace]_vars

(***************************************************************************)
(* Properties                                                              *)
(***************************************************************************)
Ops == { op[s][p] : s \in Sessions, p \in Procs }

\* the requests of the library, as the provider sees them
RefreshRequest(appid, refreshToken) ==
    [url |-> RefreshTokenUrl,
     form |-> [appid |-> appid, grant_type |-> "refresh_token",
               refresh_token |-> refreshToken]]
UserInfoRequest(accessToken, openid) ==
    [url |-> UserInfoUrl,
     form |-> [access_token |-> accessToken, openid |-> openid, lang |-> "zh_CN"]]

Urls(o) == { o.reqs[i].url : i \in 1 .. Len(o.reqs) }

\* the validity rule of the specification, for a record d read at clock t
NotExpired(d, t) ==
    /\ Has(d, "access_token") /\ d.access_token # ""
    /\ Has(d, "create_at") /\ Has(d, "expires_in")
    /\ t < d.create_at + d.expires_in * 1000

\* C1: getUser(openid) with no record cached for openid fails with the
\* library's no-token error (name NoOAuthTokenError), issues no HTTP
\* request and does not change the cache.
C1_NoTokenError ==
    \A o \in Ops :
        (o.kind = "getUser" /\ o.data = NoValue)
        => /\ o.pc = "rejected"
           /\ o.error.name = NoOAuthTokenError.name
           /\ o.reqs = << >>
           /\ ~o.wrote

\* C2: after getAccessToken succeeded with a record for U that has a
\* non-empty access_token and a positive expires_in, a getUser(U) that finds
\* this record cached and starts before create_at + expires_in*1000 issues
\* one request only, the user-info request with the cached access_token:
\* no refresh request.
C2_ValidTokenNoRefresh ==
    \A a \in Ops, g \in Ops :
        ( /\ a.kind = "getAccessToken" /\ a.pc = "resolved"
          /\ g.kind = "getUser" /\ g.data = a.value.data
          /\ Has(g.data, "openid") /\ g.openid = g.data.openid
          /\ NotExpired(g.data, g.t0) /\ g.data.expires_in > 0 )
        => g.reqs = << UserInfoRequest(a.value.data.access_token, g.openid) >>

C2_Witness ==
    \E a \in Ops, g \in Ops :
        /\ a.kind = "getAccessToken" /\ a.pc = "resolved"
        /\ g.kind = "getUser" /\ g.data = a.value.data
        /\ Has(g.data, "openid") /\ g.openid = g.data.openid
        /\ NotExpired(g.data, g.t0) /\ g.data.expires_in > 0
        /\ g.pc = "resolved" /\ g.value \in Profiles

\* C3: a getUser(U) that finds an expired record cached issues exactly one
\* refresh request, carrying the cached refresh_token, as its first request;
\* it issues the user-info request only after the refresh response has been
\* processed, with the access_token of that response and openid = U.
C3_ExpiredRefreshOnce ==
    \A g \in Ops :
        (g.kind = "getUser" /\ g.data # NoValue /\ ~NotExpired(g.data, g.t0))
        => /\ Len(g.reqs) \in {1, 2}
           /\ g.reqs[1] = RefreshRequest("appid", Get(g.data, "refresh_token"))
           /\ Len(g.reqs) = 2
              => /\ g.newToken # NoValue
                 /\ g.reqs[2] = UserInfoRequest(Get(g.newToken.data, "access_token"), g.arg)
           /\ g.pc \in {"await_refresh", "wait_userinfo"}
              => /\ Has(g.resp.body, "json")
                 /\ Get(g.newToken.data, "access_token")
                      = Get(g.resp.body.json, "access_token")
           /\ g.pc = "wait_refresh" => g.newToken = NoValue

C3_Witness ==
    \E g \in Ops :
        /\ g.kind = "getUser" /\ g.data # NoValue /\ ~NotExpired(g.data, g.t0)
        /\ g.pc = "resolved" /\ Len(g.reqs) = 2
        /\ Get(g.newToken.data, "access_token") # Get(g.data, "access_token")
        /\ Get(g.data, "access_token") # Undefined

\* C8: when the provider answers with a body that is not parseable JSON, the
\* awaited operation is rejected with the parsing failure; it does not stay
\* pending and the failure is not raised outside the awaited operation.
C8_ParseFailureRejects ==
    \A o \in Ops :
        (o.resp # NoResponse /\ o.resp.err = NoError /\ ~Has(o.resp.body, "json"))
        => /\ o.pc = "rejected"
           /\ o.error.name = "SyntaxError"
           /\ o.uncaught = NoError

C4_IsValidRule ==
    probe.called
    => LET d == probe.token.data
       IN /\ probe.result
               <=> ( /\ Has(d, "access_token") /\ d.access_token # ""
                     /\ now < d.create_at + d.expires_in * 1000 )
          /\ (now = d.create_at + d.expires_in * 1000) => ~probe.result

C4_Witness ==
    /\ probe.called
    /\ Get(probe.token.data, "access_token") = "A1"
    /\ probe.token.data.expires_in = 1
    /\ now = probe.token.data.create_at + probe.token.data.expires_in * 1000
    /\ ~probe.result

\* the step in which the callback of p's request in flight ran
Answered(s, p, pcs, pcs2) == op[s][p].pc \in pcs /\ op'[s][p].pc \in pcs2

\* record v is response body b stamped with create_at = t
IsStamped(v, b, t) ==
    /\ DOMAIN v = DOMAIN b \cup {"create_at"}
    /\ v.create_at = t
    /\ \A f \in DOMAIN b \ {"create_at"} : v[f] = b[f]

\* C5: when getAccessToken(code) succeeds, the record is the response with
\* create_at set to the clock at that moment, whatever create_at the
\* response carried; it is stored under the openid of the response; and the
\* value returned wraps exactly the record now in the cache.
C5_ExchangeStampsAndStores ==
    [][ \A s \in Sessions, p \in Procs :
          (op[s][p].kind = "getAccessToken" /\ Answered(s, p, {"wait_token"}, {"resolved"}))
          => LET b == op'[s][p].resp.body.json
                 v == op'[s][p].value.data
             IN /\ IsStamped(v, b, now)
                /\ Has(b, "openid")
                   => /\ b.openid \in DOMAIN store'[s]
                      /\ store'[s][b.openid] = v ]_vars

C5_Witness ==
    \E s \in Sessions, p \in Procs :
        LET o == op[s][p]
        IN /\ o.kind = "getAccessToken" /\ o.pc = "resolved"
           /\ Has(o.resp.body.json, "create_at")
           /\ o.value.data.create_at # o.resp.body.json.create_at
           /\ o.value.data.create_at = now
           /\ store[s][o.value.data.openid] = o.value.data

\* C6: when a refresh succeeds with a response for identifier U, the cache
\* entry of U becomes exactly that response stamped with the clock: nothing
\* of the record cached for U before survives; the entries of all other
\* identifiers stay as they were.
C6_RefreshReplaces ==
    [][ \A s \in Sessions, p \in Procs :
          Answered(s, p, {"wait_refresh"}, {"resolved", "await_refresh"})
          => LET b == op'[s][p].resp.body.json
             IN Has(b, "openid")
                => /\ DOMAIN store'[s] = DOMAIN store[s] \cup {b.openid}
                   /\ IsStamped(store'[s][b.openid], b, now)
                   /\ \A k \in DOMAIN store[s] \ {b.openid} :
                          store'[s][k] = store[s][k] ]_vars

C6_Witness ==
    \E s \in Sessions, p \in Procs :
        LET g == op[s][p]
        IN /\ g.kind = "getUser" /\ g.newToken # NoValue
           /\ Has(g.data, "scope") /\ ~Has(g.newToken.data, "scope")
           /\ g.openid \in DOMAIN store[s]
           /\ store[s][g.openid] = g.newToken.data

\* C7, as claimed: when the transport reports an error for a request of
\* getAccessToken, refreshAccessToken or getUser, the awaited operation
\* fails with that error and has left the cache as it was when it started.
C7_CacheAsAtStart ==
    \A o \in Ops :
        ( /\ o.kind \in {"getAccessToken", "refreshAccessToken", "getUser"}
          /\ o.resp # NoResponse /\ o.resp.err # NoError )
        => /\ o.pc = "rejected" /\ o.error = o.resp.err
           /\ ~o.wrote

\* C7, amended: when the transport reports an error, the awaited operation
\* fails with that error and the callback that handles the error leaves the
\* cache as it was (an expired record stays cached after a failed refresh);
\* an operation whose only request failed has not changed the cache, and an
\* operation that has changed it before its last request failed did so by
\* storing the response of its own exchange or refresh.
C7_TransportErrorKeepsCache ==
    /\ [] \A o \in Ops :
            (o.resp # NoResponse /\ o.resp.err # NoError)
            => /\ o.pc = "rejected" /\ o.error = o.resp.err
               /\ Len(o.reqs) = 1 => ~o.wrote
               /\ o.wrote => (o.token # NoValue \/ o.newToken # NoValue)
    /\ [][ \A s \in Sessions, p \in Procs :
             Answered(s, p, {"wait_token", "wait_refresh", "wait_userinfo"}, {"rejected"})
             => store' = store ]_vars

C7_Witness ==
    \E s \in Sessions, p \in Procs :
        LET g == op[s][p]
        IN /\ g.kind = "getUser" /\ g.pc = "rejected" /\ g.error \in NetErrors
           /\ Len(g.reqs) = 1 /\ g.reqs[1].url = RefreshTokenUrl
           /\ g.openid \in DOMAIN store[s]
           /\ store[s][g.openid] = g.data
           /\ ~NotExpired(g.data, now)

\* what a caller sees of an operation
Outcome(o) ==
    [state |-> IF o.pc \in {"resolved", "rejected"} THEN o.pc ELSE "pending",
     value |-> o.value, error |-> o.error]
Pending == [state |-> "pending", value |-> NoValue, error |-> NoError]

\* C9: getUserByCode(code) and getAccessToken(code) followed by getUser on
\* the openid of the returned record, from the same store and with the
\* same responses, leave the same store, issue the same requests in the
\* same order and end with the same profile or the same failure.
C9_Equivalent ==
    LET a == op[Left][1]
        b1 == op[Right][1]
        b2 == op[Right][2]
    IN /\ store[Left] = store[Right]
       /\ a.reqs = b1.reqs \o b2.reqs
       /\ Outcome(a) = IF b1.pc # "resolved" THEN Outcome(b1)
                       ELSE IF b2.kind = "idle" THEN Pending
                       ELSE Outcome(b2)
       /\ a.uncaught = IF b1.uncaught # NoError THEN b1.uncaught ELSE b2.uncaught

C9_Witness ==
    /\ op[Left][1].kind = "getUserByCode" /\ op[Left][1].pc = "resolved"
    /\ op[Right][2].kind = "getUser" /\ op[Right][2].pc = "resolved"
    /\ Len(op[Left][1].reqs) = 3
    /\ op[Left][1].value \in Profiles
    /\ store[Left] # << >>

(***************************************************************************)
(* The authorization address                                               *)
(***************************************************************************)
\* the values the address carries for parameter key
QueryValues(u, key) ==
    { u.query[i][2] : i \in { j \in DOMAIN u.query : u.query[j][1] = key } }

\* a step in which a caller calls getAuthorizeURL
CallsGetAuthorizeURL(s) ==
    /\ nops' = nops + 1
    /\ \E p \in Procs :
          /\ op'[s][p].kind = "getAuthorizeURL"
          /\ \A q \in Procs \ {p} : op'[s][q] = op[s][q]

\* C11: getAuthorizeURL never fails, issues no HTTP request and leaves the
\* token cache and the credentials as they were, for every redirect_uri,
\* scope and state and in whatever state the session is when it is called.
C11_AuthorizeURLPure ==
    /\ [](\A o \in Ops :
            o.kind = "getAuthorizeURL"
            => /\ o.pc = "resolved"
               /\ o.error = NoError /\ o.uncaught = NoError
               /\ o.value # NoValue
               /\ o.reqs = << >>
               /\ ~o.wrote)
    /\ [][ \A s \in Sessions :
             CallsGetAuthorizeURL(s) => store' = store /\ creds' = creds ]_vars

C11_Witness ==
    \E s \in Sessions, p \in Procs, q \in Procs :
        /\ op[s][p].kind = "getAuthorizeURL" /\ op[s][p].arg.scope = ""
        /\ op[s][p].pc = "resolved"
        /\ op[s][q].pc = "wait_refresh"
        /\ store[s] # << >>

\* C12: the address getAuthorizeURL produces for an empty scope carries
\* scope=snsapi_base, never an empty scope; for a non-empty scope it carries
\* the scope supplied.
C12_ScopeDefault ==
    \A o \in Ops :
        o.kind = "getAuthorizeURL"
        => /\ o.pc = "resolved"
           /\ QueryValues(o.value, "scope")
                = { IF o.arg.scope = "" THEN "snsapi_base" ELSE QsEscape(o.arg.scope) }
           /\ "" \notin QueryValues(o.value, "scope")

C12_Witness ==
    \E s \in Sessions, p \in Procs, q \in Procs :
        /\ op[s][p].kind = "getAuthorizeURL" /\ op[s][p].arg.scope = ""
        /\ QueryValues(op[s][p].value, "scope") = {"snsapi_base"}
        /\ op[s][q].kind = "getAuthorizeURL" /\ op[s][q].arg.scope = "snsapi_userinfo"
        /\ QueryValues(op[s][q].value, "scope") = {"snsapi_userinfo"}

\* C19: the client secret is sent in the code-exchange request only: it is
\* in no authorization address, no refresh request and no user-info request.
C19_SecretOnlyInExchange ==
    \A s \in Sessions, p \in Procs :
        LET o == op[s][p]
            secret == creds[s].appsecret
        IN /\ o.kind = "getAuthorizeURL"
              => \A i \in DOMAIN o.value.query :
                     o.value.query[i][1] # "secret" /\ o.value.query[i][2] # secret
           /\ \A i \in DOMAIN o.reqs :
                 IF o.reqs[i].url = AccessTokenUrl
                 THEN o.reqs[i].form.secret = secret
                 ELSE /\ "secret" \notin DOMAIN o.reqs[i].form
                      /\ \A f \in DOMAIN o.reqs[i].form : o.reqs[i].form[f] # secret

C19_Witness ==
    \E s \in Sessions, p \in Procs, q \in Procs :
        /\ op[s][p].kind = "getAuthorizeURL" /\ op[s][p].pc = "resolved"
        /\ Urls(op[s][q]) = {AccessTokenUrl, RefreshTokenUrl, UserInfoUrl}

(***************************************************************************)
(* Operations in flight at once                                            *)
(***************************************************************************)
\* operation o is a getAccessToken or refreshAccessToken that has resolved
\* with a record for identifier u
WroteRecordFor(o, u) ==
    /\ o.kind \in {"getAccessToken", "refreshAccessToken"}
    /\ o.pc = "resolved"
    /\ Has(o.value.data, "openid") /\ o.value.data.openid = u

\* C13: when two refreshes, or an exchange and a refresh, for the same
\* identifier U are in flight at once, then however their responses
\* interleave the cache entry of U after both have completed is the record
\* of the response processed last: one whole stamped response, never a mix.
C13_LastWriteWins ==
    /\ [](\A p \in Procs : \A q \in Procs \ {p}, u \in OpenIds :
            (WroteRecordFor(op[Main][p], u) /\ WroteRecordFor(op[Main][q], u))
            => LET vp == op[Main][p].value.data
                   vq == op[Main][q].value.data
               IN /\ u \in DOMAIN store[Main]
                  /\ store[Main][u] \in {vp, vq}
                  /\ vp.create_at > vq.create_at => store[Main][u] = vp)
    /\ [][ \A p \in Procs : \A q \in Procs \ {p}, u \in OpenIds :
             ( /\ WroteRecordFor(op[Main][q], u)
               /\ ~WroteRecordFor(op[Main][p], u)
               /\ WroteRecordFor(op'[Main][p], u) )
             => /\ store'[Main][u] = op'[Main][p].value.data
                /\ IsStamped(store'[Main][u], op'[Main][p].resp.body.json, now) ]_vars

C13_Witness ==
    \E p \in Procs : \E q \in Procs \ {p}, u \in OpenIds :
        /\ WroteRecordFor(op[Main][p], u) /\ WroteRecordFor(op[Main][q], u)
        /\ op[Main][p].kind = "refreshAccessToken"
        /\ op[Main][p].value.data.access_token # op[Main][q].value.data.access_token
        /\ op[Main][p].value.data.create_at = op[Main][q].value.data.create_at
        /\ store[Main][u] = op[Main][p].value.data
        /\ DOMAIN op[Main][q].value.data # DOMAIN store[Main][u]

(***************************************************************************)
(* Requests per operation                                                  *)
(***************************************************************************)
\* how many requests operation o has posted to url
Posted(o, url) == Cardinality({ i \in DOMAIN o.reqs : o.reqs[i].url = url })

\* the response the last callback of o received was a failure: a transport
\* error or a body that is not JSON
LastRequestFailed(o) ==
    /\ o.resp # NoResponse
    /\ o.resp.err # NoError \/ o.resp.body = BadText

\* C14: no request is retried. One getUser posts at most one refresh request
\* and at most one user-info request; one getAccessToken or
\* refreshAccessToken posts exactly one request; and an operation whose
\* request has failed posts no further request.
C14_NoRetry ==
    /\ [](\A o \in Ops :
            /\ o.kind = "getAccessToken" => Urls(o) = {AccessTokenUrl} /\ Len(o.reqs) = 1
            /\ o.kind = "refreshAccessToken" => Urls(o) = {RefreshTokenUrl} /\ Len(o.reqs) = 1
            /\ o.kind = "getUser"
               => /\ Posted(o, RefreshTokenUrl) <= 1
                  /\ Posted(o, UserInfoUrl) <= 1
                  /\ Posted(o, AccessTokenUrl) = 0
            /\ o.kind = "getUserByCode"
               => \A url \in {AccessTokenUrl, RefreshTokenUrl, UserInfoUrl} : Posted(o, url) <= 1
            /\ LastRequestFailed(o) => o.pc \in {"rejected", "hung"})
    /\ [][ \A s \in Sessions, p \in Procs :
             (op[s][p].pc \in {"rejected", "hung"} /\ op'[s][p] # op[s][p])
             => /\ nops' = nops + 1
                /\ op[s][p].pc = "rejected"
                /\ op'[s][p].resp = NoResponse
                /\ Len(op'[s][p].reqs) <= 1 ]_vars

C14_Witness ==
    \E o \in Ops :
        /\ o.kind = "getUser" /\ o.pc = "rejected"
        /\ Len(o.reqs) = 2
        /\ Posted(o, RefreshTokenUrl) = 1 /\ Posted(o, UserInfoUrl) = 1
        /\ LastRequestFailed(o)

(***************************************************************************)
(* The keys of the cache                                                   *)
(***************************************************************************)
\* caller p of session s starts a getUser in this step
StartsGetUser(s, p) ==
    /\ op[s][p].pc \in {"idle", "resolved", "rejected"}
    /\ op'[s][p] # op[s][p]
    /\ op'[s][p].kind = "getUser"

\* C15: no entry is ever removed from the cache: the set of cached
\* identifiers only grows, so once getAccessToken has succeeded for U a
\* later getUser(U) of the session finds a record and does not fail for
\* want of a token.
C15_CacheOnlyGrows ==
    /\ [](\A s \in Sessions, p \in Procs :
            LET a == op[s][p]
            IN (a.kind = "getAccessToken" /\ a.pc = "resolved" /\ Has(a.value.data, "openid"))
               => a.value.data.openid \in DOMAIN store[s])
    /\ [][ \A s \in Sessions :
             /\ DOMAIN store[s] \subseteq DOMAIN store'[s]
             /\ \A p \in Procs :
                  (StartsGetUser(s, p) /\ op'[s][p].openid \in DOMAIN store[s])
                  => /\ op'[s][p].data # NoValue
                     /\ op'[s][p].pc # "rejected"
                     /\ op'[s][p].error = NoError ]_vars

C15_Witness ==
    \E s \in Sessions, p \in Procs, q \in Procs :
        LET a == op[s][p]
            g == op[s][q]
        IN /\ a.kind = "getAccessToken" /\ a.pc = "resolved"
           /\ Has(a.value.data, "openid")
           /\ g.kind = "getUser" /\ g.openid = a.value.data.openid
           /\ g.t0 > a.value.data.create_at
           /\ g.data # NoValue
           /\ Cardinality(DOMAIN store[s]) = 1

\* C16: every key of the cache is a user identifier the provider returned,
\* and every cached record carries the identifier it is keyed by: a response
\* that parses but has no openid (a provider error payload) is not written
\* into the cache by getAccessToken or refreshAccessToken.
C16_KeysAreIdentifiers ==
    \A s \in Sessions : \A k \in DOMAIN store[s] :
        /\ k \in OpenIds
        /\ Has(store[s][k], "openid")
        /\ store[s][k].openid = k

(***************************************************************************)
(* getUser among other operations in flight                                *)
(***************************************************************************)
\* C17: on getUser's valid-token path the lookup in the cache, the validity
\* check and the posting of the user-info request are one uninterrupted
\* step: no callback of another operation in flight runs between the lookup
\* and the request, so the access_token sent is the one cached for U at the
\* moment the request is posted.
C17_ValidPathAtomic ==
    /\ [](\A p \in Procs :
            LET g == op[Main][p]
            IN (g.kind = "getUser" /\ g.data # NoValue /\ isValid(AccessToken(g.data), g.t0))
               => /\ Len(g.reqs) >= 1
                  /\ g.reqs[1] = UserInfoRequest(g.data.access_token, g.openid))
    /\ [][ \A p \in Procs :
             (StartsGetUser(Main, p) /\ op'[Main][p].pc = "wait_userinfo")
             => LET g == op'[Main][p]
                IN /\ store' = store
                   /\ \A q \in Procs \ {p} : op'[Main][q] = op[Main][q]
                   /\ g.openid \in DOMAIN store'[Main]
                   /\ g.data = store'[Main][g.openid]
                   /\ g.reqs = << UserInfoRequest(store'[Main][g.openid].access_token,
                                                  g.openid) >> ]_vars

C17_Witness ==
    \E p \in Procs : \E q \in Procs \ {p} :
        LET g == op[Main][p]
        IN /\ g.kind = "getUser" /\ g.pc = "wait_userinfo"
           /\ g.reqs = << UserInfoRequest("A1", "U1") >>
           /\ op[Main][q].kind = "refreshAccessToken" /\ op[Main][q].pc = "resolved"
           /\ store[Main]["U1"].access_token = "A2"

\* getUser g found a record that was expired when it started
StartedExpired(g) ==
    /\ g.kind = "getUser"
    /\ g.data # NoValue
    /\ ~isValid(AccessToken(g.data), g.t0)

\* C18: when several getUser(U) start while the record of U is expired and
\* before any refresh response has arrived, each posts a refresh request of
\* its own, and each posts its user-info request with the access_token of
\* its own refresh response, whatever another call's response has written
\* into the cache entry of U in the meantime.
C18_OwnRefresh ==
    \A p \in Procs : \A q \in Procs \ {p} :
        LET g == op[Main][p]
            h == op[Main][q]
        IN (StartedExpired(g) /\ StartedExpired(h) /\ g.openid = h.openid)
           => /\ Len(g.reqs) \in {1, 2}
              /\ g.reqs[1] = RefreshRequest(creds[Main].appid, Get(g.data, "refresh_token"))
              /\ g.pc \in {"await_refresh", "wait_userinfo"}
                 => /\ IsStamped(g.newToken.data, g.resp.body.json, g.newToken.data.create_at)
                    /\ g.newToken.data.create_at >= g.t0
              /\ Len(g.reqs) = 2
                 => g.reqs[2] = UserInfoRequest(Get(g.newToken.data, "access_token"), g.openid)

C18_Witness ==
    \E p \in Procs : \E q \in Procs \ {p} :
        LET g == op[Main][p]
            h == op[Main][q]
        IN /\ StartedExpired(g) /\ StartedExpired(h) /\ g.openid = h.openid
           /\ Len(g.reqs) = 2 /\ Len(h.reqs) = 2
           /\ g.reqs[2].form.access_token = "A1"
           /\ h.reqs[2].form.access_token = "A2"
           /\ store[Main][g.openid].access_token = "A2"
           /\ g.pc = "wait_userinfo"

====
